---- MODULE Spec2Model ----
(***************************************************************************)
(* Model of scripts/generate_kbar.py: the random-walk candle generator     *)
(* (generate_rows) and the universe -> per-symbol batch pipeline (main).    *)
(*                                                                         *)
(* Units.  Prices are integers counting 10^-6 (the six decimals the        *)
(* writer prints), volumes count 10^-2, drift and span factors are in      *)
(* thousandths (uniform(-0.02, 0.02) is -20..20, uniform(0.001, 0.01) is   *)
(* 1..10), instants are whole seconds.  A product is rounded to the        *)
(* nearest unit, as the float is when it is printed.  A timestamp is the   *)
(* instant itself: its printed text names it one to one.                   *)
(* A text (a symbol) is a sequence of one-character strings, so that       *)
(* strip() is computed character by character.                             *)
(***************************************************************************)
EXTENDS Integers, Sequences, FiniteSets, TLC

VARIABLES
  now,           \* the wall clock, datetime.now(timezone.utc)
  universe_file, \* the content of the file at args.universe
  args,          \* parse_args(): the command line
  pc,            \* main's position
  exit_msg,      \* the message the process ended with
  rng,           \* the random.Random instance of main
  rng_created,   \* how many random.Random instances this run constructed
  symbols,       \* unique_symbols(universe_rows), in dict order
  idx,           \* how many symbols the loop of main has completed
  mapping_rows,  \* main's mapping_rows list
  disk,          \* output files: path text -> rows
  io_log,        \* the file operations of this run, in order
  draw_log,      \* the rng draws of this run, in order
  run,           \* 1: first run, 2: a second run with the same command line
  first_out,     \* the output files as the first run left them
  g_pc,          \* generate_rows called alone: its position
  g_length,      \* its length argument
  g_interval,    \* its interval_seconds argument
  g_start_time,  \* its start_time
  g_i,           \* its loop index: the rows made so far
  g_price,       \* its running price
  g_rows         \* the last two rows appended to its rows list

pipeline_vars == <<universe_file, args, pc, exit_msg, rng, rng_created, symbols, idx,
                   mapping_rows, disk, io_log, draw_log, run, first_out>>
gen_vars == <<g_pc, g_length, g_interval, g_start_time, g_i, g_price, g_rows>>
vars == <<now, pipeline_vars, gen_vars>>

----------------------------------------------------------------------------
(* Bounds *)
MaxLen == 2        \* longest series of the pipeline and of the free walks
MaxClock == 2      \* the clock runs over 0..MaxClock
MaxRows == 3       \* most data rows of a universe file
LongWalk == 458    \* the length of the long walk of generate_rows
FreeTail == 8      \* its last candles draw freely; the ones before draw the least drift

(* Program constants *)
StartPrice == 100000000   \* price = 100.0
PriceFloor == 10000       \* max(0.01, ...)

UNIVERSE_FIELDS == {"filters", "badge", "symbol", "name", "market", "venue"}

(* The values the model lets rng.uniform return. *)
DriftSeq == <<-20, 0, 20>>
SpanSeq == <<1, 10>>
VolumeSeq == <<5000, 500000>>
DriftSet == {DriftSeq[k] : k \in DOMAIN DriftSeq}
SpanSet == {SpanSeq[k] : k \in DOMAIN SpanSeq}
VolumeSet == {VolumeSeq[k] : k \in DOMAIN VolumeSeq}

Max(a, b) == IF a >= b THEN a ELSE b
Min(a, b) == IF a <= b THEN a ELSE b

(* a * n / 1000 rounded to the nearest unit (a >= 0, n >= 0), computed in  *)
(* two parts so that no intermediate value needs more than 32 bits.        *)
MulRatio(a, n) == (a \div 1000) * n + ((a % 1000) * n + 500) \div 1000

----------------------------------------------------------------------------
(* generate_rows *)

StartTimeOf(clock, length, interval_seconds) == clock - interval_seconds * length

ClosePrice(open_price, drift) == Max(PriceFloor, MulRatio(open_price, 1000 + drift))

SpanOf(open_price, factor) == MulRatio(open_price, factor)

HighOf(open_price, close_price, span) == Max(open_price, close_price) + span

(* low without the floor *)
LowOfUnfloored(open_price, close_price, span) == Min(open_price, close_price) - span

LowOf(open_price, close_price, span) ==
  Max(PriceFloor, Min(open_price, close_price) - span)

TimestampOf(start_time, interval_seconds, i) == start_time + interval_seconds * i

(* One iteration of the loop: the row it appends. *)
CandleRow(start_time, interval_seconds, i, price, drift, factor, volume) ==
  LET open_price == price
      close_price == ClosePrice(open_price, drift)
      span == SpanOf(open_price, factor)
  IN [timestamp |-> TimestampOf(start_time, interval_seconds, i),
      open |-> open_price,
      high |-> HighOf(open_price, close_price, span),
      low |-> LowOf(open_price, close_price, span),
      close |-> close_price,
      volume |-> volume]

(* the next row opening where this one opened *)
NextPriceStale(row) == row.open

(* line 117: price = close_price *)
NextPrice(row) == row.close

(* The drift values the walk called alone may draw for row i: every value, *)
(* except in the long walk, whose rows before the last FreeTail draw the   *)
(* least drift, which is what brings the price down to the floor.          *)
DriftChoices(i, length) ==
  IF length = LongWalk /\ i < LongWalk - FreeTail THEN {DriftSeq[1]} ELSE DriftSet

(* The rows list, of which the model keeps the last two rows. *)
AppendRow(rows, row) == IF rows = <<>> THEN <<row>> ELSE <<rows[Len(rows)], row>>

GenLengths == (1..MaxLen) \cup {LongWalk}
GenIntervals == {1, 60}

PipelineIdle ==
  /\ universe_file = [exists |-> FALSE]
  /\ args = [length |-> 0]
  /\ pc = "idle"
  /\ exit_msg = ""
  /\ rng = [seed |-> 0, pos |-> 0]
  /\ rng_created = 0
  /\ symbols = <<>>
  /\ idx = 0
  /\ mapping_rows = <<>>
  /\ disk = <<>>
  /\ io_log = <<>>
  /\ draw_log = <<>>
  /\ run = 1
  /\ first_out = <<>>

GenInit ==
  /\ now \in 0..MaxClock
  /\ g_pc = "call"
  /\ g_length \in GenLengths
  /\ g_interval \in GenIntervals
  /\ g_start_time = 0
  /\ g_i = 0
  /\ g_price = 0
  /\ g_rows = <<>>
  /\ PipelineIdle

(* lines 91-93: start_time from the clock, price = 100.0, rows = [] *)
GenEnter ==
  /\ g_pc = "call"
  /\ g_start_time' = StartTimeOf(now, g_length, g_interval)
  /\ g_price' = StartPrice
  /\ g_rows' = <<>>
  /\ g_i' = 0
  /\ g_pc' = "loop"
  /\ UNCHANGED <<now, g_length, g_interval, pipeline_vars>>

(* lines 95-117: one iteration, three draws *)
GenIterate ==
  /\ g_pc = "loop"
  /\ g_i < g_length
  /\ \E drift \in DriftChoices(g_i, g_length), factor \in SpanSet, volume \in VolumeSet :
       LET row == CandleRow(g_start_time, g_interval, g_i, g_price, drift, factor, volume)
       IN /\ g_rows' = AppendRow(g_rows, row)
          /\ g_price' = NextPrice(row)
  /\ g_i' = g_i + 1
  /\ UNCHANGED <<now, g_pc, g_length, g_interval, g_start_time, pipeline_vars>>

(* line 119: return rows *)
GenReturn ==
  /\ g_pc = "loop"
  /\ g_i = g_length
  /\ g_pc' = "returned"
  /\ UNCHANGED <<now, g_length, g_interval, g_start_time, g_i, g_price, g_rows,
                 pipeline_vars>>

GenNext == GenEnter \/ GenIterate \/ GenReturn

GenSpec == GenInit /\ [][GenNext]_vars

----------------------------------------------------------------------------
(* Texts and paths *)

IsSpace(c) == c = " "

RECURSIVE LStrip(_)
LStrip(s) == IF s # <<>> /\ IsSpace(Head(s)) THEN LStrip(Tail(s)) ELSE s

RECURSIVE RStrip(_)
RStrip(s) ==
  IF s # <<>> /\ IsSpace(s[Len(s)]) THEN RStrip(SubSeq(s, 1, Len(s) - 1)) ELSE s

(* str.strip() *)
Strip(s) == RStrip(LStrip(s))

(* The text as one string. *)
RECURSIVE Str(_)
Str(s) == IF s = <<>> THEN "" ELSE Head(s) \o Str(Tail(s))

RECURSIVE JoinParts(_)
JoinParts(parts) ==
  IF parts = <<>> THEN ""
  ELSE IF Len(parts) = 1 THEN parts[1]
  ELSE parts[1] \o "/" \o JoinParts(Tail(parts))

(* A pathlib.Path: whether it is absolute, and its components. *)
PathOf(abs, parts) == [abs |-> abs, parts |-> parts]

(* str(path) *)
PathStr(p) == (IF p.abs THEN "/" ELSE "") \o JoinParts(p.parts)

(* path / other *)
PathJoin(p, q) == IF q.abs THEN q ELSE PathOf(p.abs, p.parts \o q.parts)

(* args.out_dir / f"{symbol}.csv" *)
OutputFile(out_dir, symbol) == PathJoin(out_dir, PathOf(FALSE, <<Str(symbol) \o ".csv">>))

(* the parent step put before every path, absolute or not *)
MappingPathForAlwaysUp(output_file) ==
  PathStr(PathJoin(PathOf(FALSE, <<"..">>), PathOf(FALSE, output_file.parts)))

(* mapping_path_for *)
MappingPathFor(output_file) ==
  IF output_file.abs THEN PathStr(output_file)
  ELSE PathStr(PathJoin(PathOf(FALSE, <<"..">>), output_file))

----------------------------------------------------------------------------
(* read_universe and unique_symbols *)

Failure(msg) == [ok |-> FALSE, msg |-> msg]

(* read_universe(path): the rows, or the way it ends the process *)
ReadUniverse(file) ==
  IF ~file.exists THEN Failure("universe file not found")
  ELSE IF ~file.has_header THEN Failure("TypeError")
  ELSE IF UNIVERSE_FIELDS \ file.header # {} THEN Failure("universe is missing columns")
  ELSE LET rows == SelectSeq(file.rows, LAMBDA row : row.symbol # <<>>)
       IN IF rows = <<>> THEN Failure("no symbols found in universe")
          ELSE [ok |-> TRUE, rows |-> rows]

(* every row kept: no check for a symbol already seen *)
SetDefaultAppend(deduped, symbol, row) ==
  Append(deduped, [symbol |-> symbol, meta |-> row])

(* deduped[symbol] = row: the last row of a symbol replaces the first *)
SetDefaultLastWins(deduped, symbol, row) ==
  IF \E k \in DOMAIN deduped : deduped[k].symbol = symbol
    THEN [k \in DOMAIN deduped |->
            IF deduped[k].symbol = symbol THEN [symbol |-> symbol, meta |-> row]
            ELSE deduped[k]]
  ELSE Append(deduped, [symbol |-> symbol, meta |-> row])

(* deduped.setdefault(symbol, row) on a dict kept as its items in order *)
SetDefault(deduped, symbol, row) ==
  IF \E k \in DOMAIN deduped : deduped[k].symbol = symbol THEN deduped
  ELSE Append(deduped, [symbol |-> symbol, meta |-> row])

RECURSIVE UniqueLoop(_, _)
UniqueLoop(universe_rows, deduped) ==
  IF universe_rows = <<>> THEN deduped
  ELSE LET row == Head(universe_rows)
           symbol == Strip(row.symbol)
       IN UniqueLoop(Tail(universe_rows),
                     IF symbol = <<>> THEN deduped ELSE SetDefault(deduped, symbol, row))

UniqueSymbols(universe_rows) == UniqueLoop(universe_rows, <<>>)

----------------------------------------------------------------------------
(* random.Random *)

(* The stream of a seed: its n-th output, a fixed function of the seed. *)
RawDraw(seed, n) == ((seed + 1) * (n + 2) * (n + 5) + n * n + seed) % 6

(* random.Random(seed): a seed of None is replaced by one the system picks *)
SeedChoices(seed) == IF seed = <<>> THEN 0..2 ELSE {seed[1]}

(* rng.uniform(a, b): the value, the stream position it used, the rng after *)
Uniform(choices, r) ==
  [value |-> choices[(RawDraw(r.seed, r.pos + 1) % Len(choices)) + 1],
   pos |-> r.pos + 1,
   rng |-> [seed |-> r.seed, pos |-> r.pos + 1]]

DrawEntry(d, kind, j, i) ==
  [pos |-> d.pos, kind |-> kind, sym |-> j, candle |-> i, value |-> d.value]

(* lines 96-117: one iteration of generate_rows drawing from rng *)
GenBody(st, start_time, interval_seconds, j) ==
  LET drift == Uniform(DriftSeq, st.rng)
      factor == Uniform(SpanSeq, drift.rng)
      volume == Uniform(VolumeSeq, factor.rng)
      row == CandleRow(start_time, interval_seconds, st.i, st.price,
                       drift.value, factor.value, volume.value)
  IN [i |-> st.i + 1,
      price |-> NextPrice(row),
      rows |-> Append(st.rows, row),
      rng |-> volume.rng,
      draws |-> st.draws \o <<DrawEntry(drift, "drift", j, st.i),
                              DrawEntry(factor, "span", j, st.i),
                              DrawEntry(volume, "volume", j, st.i)>>]

RECURSIVE GenLoop(_, _, _, _, _)
GenLoop(st, length, start_time, interval_seconds, j) ==
  IF st.i >= length THEN st
  ELSE GenLoop(GenBody(st, start_time, interval_seconds, j),
               length, start_time, interval_seconds, j)

(* generate_rows starting a stream of its own at every call *)
GenerateRowsFreshRng(length, interval_seconds, r, clock, j) ==
  GenLoop([i |-> 0, price |-> StartPrice, rows |-> <<>>,
           rng |-> [seed |-> r.seed, pos |-> 0], draws |-> <<>>],
          length, StartTimeOf(clock, length, interval_seconds), interval_seconds, j)

(* generate_rows(length, interval_seconds, rng), called for the j-th symbol *)
(* when the clock reads `clock`: the rows, the rng after, the draws made.   *)
GenerateRows(length, interval_seconds, r, clock, j) ==
  GenLoop([i |-> 0, price |-> StartPrice, rows |-> <<>>, rng |-> r, draws |-> <<>>],
          length, StartTimeOf(clock, length, interval_seconds), interval_seconds, j)

----------------------------------------------------------------------------
(* main *)

(* meta.get(key, "") *)
MetaGet(meta, key) == IF key \in DOMAIN meta THEN meta[key] ELSE ""

(* a or b, on strings *)
OrElse(a, b) == IF a # "" THEN a ELSE b

(* lines 162-173: the mapping row of a symbol *)
MappingRow(symbol, meta, output_file) ==
  [symbol |-> symbol,
   name |-> MetaGet(meta, "name"),
   exchange |-> OrElse(MetaGet(meta, "venue"), MetaGet(meta, "exchange")),
   source |-> MappingPathFor(output_file),
   filters |-> MetaGet(meta, "filters"),
   badge |-> MetaGet(meta, "badge"),
   market |-> MetaGet(meta, "market"),
   venue |-> MetaGet(meta, "venue")]

IoEntry(op, kind, path) == [op |-> op, kind |-> kind, path |-> path]

(* path.open("w") and the writes after it: the file holds rows *)
WriteFile(d, path, rows) == (path :> rows) @@ d

(* How a write ends: done, refused before the file is opened, or broken    *)
(* off after the file was opened (and so emptied).                         *)
WriteOutcomes == {"written", "refused", "broken"}

(* a failed write that takes the earlier output files away *)
DiskAfterRollback(d, path, rows, outcome) ==
  IF outcome = "written" THEN WriteFile(d, path, rows) ELSE <<>>

DiskAfter(d, path, rows, outcome) ==
  CASE outcome = "written" -> WriteFile(d, path, rows)
    [] outcome = "broken" -> WriteFile(d, path, <<>>)
    [] OTHER -> d

LogAfter(log, kind, path, outcome) ==
  Append(log, IoEntry(IF outcome = "written" THEN "write" ELSE "write_failed", kind, path))

(* lines 147-153: the checks of the command line, then the rng *)
Validate ==
  /\ pc = "start"
  /\ IF args.length <= 0
       THEN /\ pc' = "error"
            /\ exit_msg' = "length must be positive"
            /\ UNCHANGED <<rng, rng_created>>
     ELSE IF args.interval_seconds <= 0
       THEN /\ pc' = "error"
            /\ exit_msg' = "interval-seconds must be positive"
            /\ UNCHANGED <<rng, rng_created>>
     ELSE /\ \E seed \in SeedChoices(args.seed) : rng' = [seed |-> seed, pos |-> 0]
          /\ rng_created' = rng_created + 1
          /\ pc' = "read"
          /\ UNCHANGED exit_msg
  /\ UNCHANGED <<now, universe_file, args, symbols, idx, mapping_rows, disk, io_log,
                 draw_log, run, first_out, gen_vars>>

(* lines 155-157: read_universe, unique_symbols, mapping_rows = [] *)
LoadUniverse ==
  /\ pc = "read"
  /\ LET got == ReadUniverse(universe_file)
     IN /\ io_log' = IF universe_file.exists
                       THEN Append(io_log, IoEntry("read", "universe", args.universe))
                       ELSE io_log
        /\ IF got.ok
             THEN /\ symbols' = UniqueSymbols(got.rows)
                  /\ pc' = "loop"
                  /\ UNCHANGED exit_msg
             ELSE /\ pc' = "error"
                  /\ exit_msg' = got.msg
                  /\ UNCHANGED symbols
  /\ mapping_rows' = <<>>
  /\ idx' = 0
  /\ UNCHANGED <<now, universe_file, args, rng, rng_created, disk, draw_log, run,
                 first_out, gen_vars>>

(* lines 158-174: one pass of the loop over symbols.items() *)
LoopSymbol ==
  /\ pc = "loop"
  /\ idx < Len(symbols)
  /\ LET symbol == symbols[idx + 1].symbol
         meta == symbols[idx + 1].meta
         output_file == OutputFile(args.out_dir, symbol)
         gen == GenerateRows(args.length, args.interval_seconds, rng, now, idx + 1)
     IN /\ rng' = gen.rng
        /\ draw_log' = draw_log \o gen.draws
        /\ \E outcome \in WriteOutcomes :
             /\ disk' = DiskAfter(disk, PathStr(output_file), gen.rows, outcome)
             /\ io_log' = LogAfter(io_log, "candles", PathStr(output_file), outcome)
             /\ IF outcome = "written"
                  THEN /\ mapping_rows' = Append(mapping_rows,
                                                 MappingRow(symbol, meta, output_file))
                       /\ idx' = idx + 1
                       /\ UNCHANGED <<pc, exit_msg>>
                  ELSE /\ pc' = "error"
                       /\ exit_msg' = "OSError"
                       /\ UNCHANGED <<mapping_rows, idx>>
  /\ UNCHANGED <<now, universe_file, args, rng_created, symbols, run, first_out,
                 gen_vars>>

(* lines 176-177: write_mapping after the loop *)
WriteMapping ==
  /\ pc = "loop"
  /\ idx = Len(symbols)
  /\ \E outcome \in WriteOutcomes :
       /\ disk' = DiskAfter(disk, args.mapping_output, mapping_rows, outcome)
       /\ io_log' = LogAfter(io_log, "mapping", args.mapping_output, outcome)
       /\ pc' = IF outcome = "written" THEN "done" ELSE "error"
       /\ exit_msg' = IF outcome = "written" THEN "" ELSE "OSError"
  /\ UNCHANGED <<now, universe_file, args, rng, rng_created, symbols, idx, mapping_rows,
                 draw_log, run, first_out, gen_vars>>

(* The clock moves on while the process runs. *)
Tick ==
  /\ pc \in {"start", "read", "loop"}
  /\ now < MaxClock
  /\ now' = now + 1
  /\ UNCHANGED <<pipeline_vars, gen_vars>>

(* The same command line is run again over the files the first run left. *)
Rerun ==
  /\ pc = "done"
  /\ run = 1
  /\ run' = 2
  /\ first_out' = disk
  /\ pc' = "start"
  /\ exit_msg' = ""
  /\ rng' = [seed |-> 0, pos |-> 0]
  /\ rng_created' = 0
  /\ symbols' = <<>>
  /\ idx' = 0
  /\ mapping_rows' = <<>>
  /\ io_log' = <<>>
  /\ draw_log' = <<>>
  /\ UNCHANGED <<now, universe_file, args, disk, gen_vars>>

----------------------------------------------------------------------------
(* The inputs *)

Text(a) == <<a>>
NoSymbol == <<>>
Blank == <<" ">>

(* A data row as csv.DictReader gives it, its metadata marked by its place i. *)
Row(i, symbol, venue) ==
  [filters |-> "f" \o ToString(i), badge |-> "b" \o ToString(i), symbol |-> symbol,
   name |-> "n" \o ToString(i), market |-> "m" \o ToString(i), venue |-> venue]

ExchangeAt(i) == IF i = 1 THEN "X" ELSE ""

(* The same rows read from a file that also has an exchange column. *)
WithExchange(rows) == [i \in DOMAIN rows |-> ("exchange" :> ExchangeAt(i)) @@ rows[i]]

UniverseOf(header, rows) ==
  [exists |-> TRUE, has_header |-> TRUE, header |-> header, rows |-> rows]

AbsentFile == [exists |-> FALSE]
NoHeaderFile == [exists |-> TRUE, has_header |-> FALSE]
MissingColumnFile == UniverseOf(UNIVERSE_FIELDS \ {"venue"}, <<>>)

RowLists ==
  { <<>>,
    <<Row(1, NoSymbol, "V")>>,
    <<Row(1, Blank, "V")>>,
    <<Row(1, Text("A"), "V")>>,
    <<Row(1, Text("A"), ""), Row(2, Text("B"), "V")>>,
    <<Row(1, Text("A"), ""), Row(2, Text("B"), "V"), Row(3, <<"A", "B">>, "")>>,
    <<Row(1, Text("A"), "V"), Row(2, NoSymbol, ""), Row(3, <<"A", " ">>, "")>> }

Universes ==
  {AbsentFile, NoHeaderFile, MissingColumnFile}
    \cup {UniverseOf(UNIVERSE_FIELDS, rows) : rows \in RowLists}
    \cup {UniverseOf(UNIVERSE_FIELDS \cup {"exchange"}, WithExchange(rows)) : rows \in RowLists}

Lengths == -1..MaxLen
Intervals == {-1, 0, 60}
Seeds == {<<>>, <<0>>, <<1>>}
OutDirs == {PathOf(FALSE, <<"data", "candles">>), PathOf(TRUE, <<"srv", "candles">>)}

ArgsOf(length, interval_seconds, seed, out_dir) ==
  [universe |-> "data/universe.csv", out_dir |-> out_dir,
   mapping_output |-> "data/mapping.csv", length |-> length,
   interval_seconds |-> interval_seconds, seed |-> seed]

GenIdle ==
  /\ g_pc = "idle"
  /\ g_length = 0
  /\ g_interval = 0
  /\ g_start_time = 0
  /\ g_i = 0
  /\ g_price = 0
  /\ g_rows = <<>>

Started ==
  /\ now = 0
  /\ pc = "start"
  /\ exit_msg = ""
  /\ rng = [seed |-> 0, pos |-> 0]
  /\ rng_created = 0
  /\ symbols = <<>>
  /\ idx = 0
  /\ mapping_rows = <<>>
  /\ disk = <<>>
  /\ io_log = <<>>
  /\ draw_log = <<>>
  /\ run = 1
  /\ first_out = <<>>
  /\ GenIdle

Init ==
  /\ universe_file \in Universes
  /\ \E length \in Lengths, interval_seconds \in Intervals, seed \in Seeds,
        out_dir \in OutDirs :
       args = ArgsOf(length, interval_seconds, seed, out_dir)
  /\ Started

Next == Validate \/ LoadUniverse \/ LoopSymbol \/ WriteMapping \/ Tick \/ Rerun

Spec == Init /\ [][Next]_vars

(* Universe files of every shape: up to MaxRows rows, each symbol empty,    *)
(* blank, padded or plain, run once with one valid command line.            *)
SymbolChoices == {NoSymbol, Blank, Text("A"), <<" ", "A", " ">>, Text("B")}
VenueChoices == {"", "V"}

RowListsOfLength(n) ==
  {[i \in 1..n |-> Row(i, pick[i][1], pick[i][2])] :
     pick \in [1..n -> SymbolChoices \X VenueChoices]}

AllRowLists == UNION {RowListsOfLength(n) : n \in 0..MaxRows}

UniverseInit ==
  /\ universe_file \in {UniverseOf(UNIVERSE_FIELDS, rows) : rows \in AllRowLists}
  /\ args = ArgsOf(1, 60, <<0>>, PathOf(FALSE, <<"data", "candles">>))
  /\ Started

UniverseNext == Validate \/ LoadUniverse \/ LoopSymbol \/ WriteMapping

UniverseSpec == UniverseInit /\ [][UniverseNext]_vars

----------------------------------------------------------------------------
(* Claims about generate_rows, under GenSpec *)

CandleOk(row) ==
  /\ row.low <= Min(row.open, row.close)
  /\ Min(row.open, row.close) <= Max(row.open, row.close)
  /\ Max(row.open, row.close) <= row.high
  /\ row.open >= PriceFloor
  /\ row.high >= PriceFloor
  /\ row.low >= PriceFloor
  /\ row.close >= PriceFloor
  /\ row.volume > 0

(* C2: every candle generate_rows produces has                              *)
(* low <= min(open, close) <= max(open, close) <= high, its four prices at  *)
(* least 0.01 and a volume above 0, whatever the draws.                     *)
C2_CandleShape == \A k \in DOMAIN g_rows : CandleOk(g_rows[k])

(* A walk that came down to the floor: a candle whose close was raised to   *)
(* 0.01, then one that rises from it and whose low was raised to 0.01.      *)
C2_Witness ==
  /\ Len(g_rows) = 2
  /\ g_rows[1].open > PriceFloor
  /\ g_rows[1].close = PriceFloor
  /\ MulRatio(g_rows[1].open, 980) < PriceFloor
  /\ g_rows[2].close > g_rows[2].open
  /\ g_rows[2].low = PriceFloor

(* C3: within one sequence each candle opens where the one before closed,   *)
(* consecutive timestamps are exactly interval_seconds apart, and the first *)
(* candle opens at 100.0.                                                   *)
C3_Continuity ==
  /\ g_i >= 1 => Len(g_rows) = Min(g_i, 2)
  /\ g_i = 1 => g_rows[1].open = StartPrice
  /\ Len(g_rows) = 2 =>
       /\ g_rows[2].open = g_rows[1].close
       /\ g_rows[2].timestamp - g_rows[1].timestamp = g_interval

(* A finished sequence whose last candle opened away from 100.0 and moved.  *)
C3_Witness ==
  /\ g_pc = "returned"
  /\ Len(g_rows) = 2
  /\ g_rows[2].open # StartPrice
  /\ g_rows[2].close # g_rows[2].open

----------------------------------------------------------------------------
(* Claims about the pipeline, under Spec *)

CandleWrites == SelectSeq(io_log, LAMBDA e : e.op = "write" /\ e.kind = "candles")
MappingWrites == SelectSeq(io_log, LAMBDA e : e.op = "write" /\ e.kind = "mapping")
WriteAttempts == SelectSeq(io_log, LAMBDA e : e.op \in {"write", "write_failed"})

(* <out_dir>/<symbol>.csv of the j-th deduplicated symbol *)
CandlePath(j) == PathStr(args.out_dir) \o "/" \o Str(symbols[j].symbol) \o ".csv"

(* C1: two runs with the same seed, universe, length and interval leave     *)
(* identical candle files (timestamps included) and mapping files, whenever *)
(* each run is started.                                                     *)
C1_Determinism ==
  (run = 2 /\ pc = "done" /\ args.seed # <<>>) => disk = first_out

(* What does repeat from the first run to the second: the mapping file and *)
(* every column of the candle files but the timestamp.                     *)
Untimed(rows) == [i \in DOMAIN rows |-> [rows[i] EXCEPT !.timestamp = 0]]

SameButTimestamps ==
  (run = 2 /\ pc = "done" /\ args.seed # <<>>) =>
    /\ DOMAIN disk = DOMAIN first_out
    /\ disk[args.mapping_output] = first_out[args.mapping_output]
    /\ \A j \in DOMAIN symbols :
         Untimed(disk[CandlePath(j)]) = Untimed(first_out[CandlePath(j)])

(* C6: in one run the i-th timestamp is the same in every symbol's series,  *)
(* so all series end at the same instant, however much time passes between  *)
(* the per-symbol generation calls.                                         *)
C6_SharedAnchor ==
  pc = "done" =>
    \A j, k \in DOMAIN symbols : \A i \in 1..args.length :
      disk[CandlePath(j)][i].timestamp = disk[CandlePath(k)][i].timestamp

Kinds == <<"drift", "span", "volume">>

(* C7: one rng per run; each candle takes three draws in the order drift,   *)
(* span, volume; the j-th symbol is made from draws 3*length*(j-1)+1 to     *)
(* 3*length*j of the one stream, none shared and none skipped.              *)
C7_SharedStream ==
  /\ rng_created <= 1
  /\ pc \in {"read", "loop", "done"} => rng_created = 1
  /\ \A n \in DOMAIN draw_log :
       LET e == draw_log[n]
           per == 3 * args.length
       IN /\ e.pos = n
          /\ e.sym = ((n - 1) \div per) + 1
          /\ e.candle = ((n - 1) % per) \div 3
          /\ e.kind = Kinds[((n - 1) % 3) + 1]
  /\ pc \in {"loop", "done"} =>
       /\ Len(draw_log) = 3 * args.length * idx
       /\ rng.pos = Len(draw_log)
       /\ \A j \in 1..idx : \A i \in 1..args.length :
            LET base == 3 * args.length * (j - 1) + 3 * (i - 1)
                row == disk[CandlePath(j)][i]
            IN /\ row.close = Max(PriceFloor, MulRatio(row.open, 1000 + draw_log[base + 1].value))
               /\ row.high = Max(row.open, row.close) + MulRatio(row.open, draw_log[base + 2].value)
               /\ row.volume = draw_log[base + 3].value

(* A finished run of several symbols with several candles each. *)
C7_Witness ==
  /\ pc = "done"
  /\ Len(symbols) >= 2
  /\ args.length >= 2
  /\ Len(draw_log) = 3 * args.length * Len(symbols)

InvalidArgs == args.length <= 0 \/ args.interval_seconds <= 0

LacksSymbol(row) == Strip(row.symbol) = <<>>

InvalidUniverse ==
  \/ ~universe_file.exists
  \/ ~universe_file.has_header
  \/ UNIVERSE_FIELDS \ universe_file.header # {}
  \/ \A i \in DOMAIN universe_file.rows : LacksSymbol(universe_file.rows[i])

(* C8: on a validation failure the run ends with an error and has written   *)
(* no output file: a non-positive length or interval is rejected before any *)
(* file operation, and an absent universe, a missing column or a universe   *)
(* whose rows all lack a symbol aborts with no candle and no mapping file.  *)
C8_NoOutputOnInvalid ==
  /\ InvalidArgs => (pc \in {"start", "error"} /\ io_log = <<>> /\ disk = <<>>)
  /\ (~InvalidArgs /\ InvalidUniverse) =>
       (pc # "done" /\ WriteAttempts = <<>> /\ disk = <<>>)

WriteOrder ==
  /\ \A k \in DOMAIN CandleWrites : CandleWrites[k].path = CandlePath(k)
  /\ Len(CandleWrites) = idx
  /\ MappingWrites # <<>> =>
       /\ Len(CandleWrites) = Len(symbols)
       /\ io_log[Len(io_log)].kind = "mapping"
       /\ Len(MappingWrites) = 1
       /\ \A j \in DOMAIN disk[args.mapping_output] :
            disk[args.mapping_output][j].source
              = (IF args.out_dir.abs THEN "" ELSE "../") \o CandleWrites[j].path

(* The run broke off while processing symbol idx + 1. *)
FailedInLoop == pc = "error" /\ exit_msg = "OSError" /\ idx < Len(symbols)

AsBeforeTheRun(path) ==
  IF run = 1 THEN path \notin DOMAIN disk
  ELSE (path \in DOMAIN disk) = (path \in DOMAIN first_out)
       /\ (path \in DOMAIN disk => disk[path] = first_out[path])

EarlierFilesRemain ==
  \A k \in 1..idx : CandlePath(k) \in DOMAIN disk /\ Len(disk[CandlePath(k)]) = args.length

(* C10 as stated: the mapping is written only after every candle file, in   *)
(* first-seen order; after a failure at symbol j the files of 1..j-1        *)
(* remain, no candle file exists for the symbols after j, and the mapping   *)
(* file is not written or is as it was before the run.                      *)
C10_NoFileAfterFailure ==
  /\ WriteOrder
  /\ FailedInLoop =>
       /\ EarlierFilesRemain
       /\ \A k \in (idx + 2)..Len(symbols) : CandlePath(k) \notin DOMAIN disk
       /\ MappingWrites = <<>>
       /\ AsBeforeTheRun(args.mapping_output)

(* C10 amended: ... after a failure at symbol j no candle file is written   *)
(* for the symbols after j: such a file is absent or as it was before the   *)
(* run.                                                                     *)
C10_NoWriteAfterFailure ==
  /\ WriteOrder
  /\ FailedInLoop =>
       /\ EarlierFilesRemain
       /\ \A k \in (idx + 2)..Len(symbols) : AsBeforeTheRun(CandlePath(k))
       /\ MappingWrites = <<>>
       /\ AsBeforeTheRun(args.mapping_output)

(* A second run that broke off at the second of three symbols. *)
C10_Witness ==
  /\ FailedInLoop
  /\ run = 2
  /\ idx = 1
  /\ Len(symbols) = 3

----------------------------------------------------------------------------
(* Claims about the deduplication, under UniverseSpec *)

Rows == universe_file.rows

(* The rows that come first for their key, among the rows that have one;    *)
(* keys[i] is the key of row i.                                             *)
Firsts(keys) ==
  {i \in DOMAIN Rows :
     /\ keys[i] # <<>>
     /\ \A h \in 1..(i - 1) : keys[h] # keys[i]}

(* Rows are merged exactly when their keys are equal; the mapping has one   *)
(* row per key, in first-seen order, with the first row's metadata.         *)
DedupBy(keys) ==
  pc = "done" =>
    LET out == disk[args.mapping_output]
        firsts == Firsts(keys)
    IN /\ Len(out) = Cardinality(firsts)
       /\ \A i \in firsts :
            LET m == out[Cardinality({h \in firsts : h <= i})]
            IN /\ m.name = Rows[i].name
               /\ m.filters = Rows[i].filters
               /\ m.badge = Rows[i].badge
               /\ m.market = Rows[i].market
               /\ m.venue = Rows[i].venue

(* The symbol of a row as it stands, a blank one counted as no symbol. *)
ExactKey(symbol) == IF Strip(symbol) = <<>> THEN <<>> ELSE symbol

(* C4 as stated: rows are merged if and only if their symbol strings are    *)
(* exactly equal, the first row's metadata survives, first-seen order.      *)
C4_DedupExact == DedupBy([i \in DOMAIN Rows |-> ExactKey(Rows[i].symbol)])

(* C4 amended: rows are merged if and only if their symbols are equal once  *)
(* surrounding whitespace is stripped (rows whose symbol is blank are       *)
(* dropped); the first row's metadata survives, in first-seen order.        *)
C4_DedupStripped ==
  /\ DedupBy([i \in DOMAIN Rows |-> Strip(Rows[i].symbol)])
  /\ pc = "done" =>
       \A j \in DOMAIN disk[args.mapping_output] :
         \E i \in DOMAIN Rows :
           /\ disk[args.mapping_output][j].symbol = Strip(Rows[i].symbol)
           /\ disk[args.mapping_output][j].name = Rows[i].name

(* A padded symbol merged into the plain one seen first, after another key. *)
C4_Witness ==
  /\ pc = "done"
  /\ Len(disk[args.mapping_output]) = 2
  /\ \E h, i \in DOMAIN Rows :
       /\ h < i
       /\ Rows[h].symbol # Rows[i].symbol
       /\ Strip(Rows[h].symbol) = Strip(Rows[i].symbol)
       /\ Strip(Rows[h].symbol) # <<>>
       /\ Rows[h].venue # Rows[i].venue

CandleFiles == DOMAIN disk \ {args.mapping_output}

(* A run over k keys writes k candle files and k mapping rows, one per key. *)
RowCountBy(keys) ==
  (pc = "done" /\ Cardinality(keys) >= 1) =>
    /\ Cardinality(CandleFiles) = Cardinality(keys)
    /\ Len(CandleWrites) = Cardinality(keys)
    /\ Len(disk[args.mapping_output]) = Cardinality(keys)

(* C5 as stated: k distinct non-empty symbol strings give k candle files    *)
(* and k mapping rows.                                                      *)
C5_RowCountExact == RowCountBy({ExactKey(Rows[i].symbol) : i \in DOMAIN Rows} \ {<<>>})

(* C5 amended: k counts the distinct symbols that are non-empty once        *)
(* surrounding whitespace is stripped.                                      *)
C5_RowCountStripped ==
  LET keys == {Strip(Rows[i].symbol) : i \in DOMAIN Rows} \ {<<>>}
  IN /\ RowCountBy(keys)
     /\ (pc = "done" /\ Cardinality(keys) >= 1) =>
          /\ {disk[args.mapping_output][j].symbol : j \in DOMAIN disk[args.mapping_output]}
               = keys
          /\ CandleFiles = {PathStr(args.out_dir) \o "/" \o Str(k) \o ".csv" : k \in keys}

(* A finished run in which stripping changed the count. *)
C5_Witness ==
  /\ pc = "done"
  /\ Cardinality({Strip(Rows[i].symbol) : i \in DOMAIN Rows} \ {<<>>}) = 2
  /\ Cardinality({Rows[i].symbol : i \in DOMAIN Rows} \ {<<>>}) = 3

====
